---- MODULE Spec2Model ----
(***************************************************************************)
(* A model of pydc-control: the service resolver (data.py), the dynamic    *)
(* environment reconciler and the topology composer                        *)
(* (docker_compose_utils.py), the staged start-up sequencer (commands.py)  *)
(* and the configuration loader (config.py).                               *)
(*                                                                         *)
(* Strings that the code inspects character by character (the environment  *)
(* file, its lines, option tokens and option values) are sequences of      *)
(* one-character strings.  Names that the code only compares or formats    *)
(* into attribute names (service names, flag tokens) are atomic strings.   *)
(***************************************************************************)
EXTENDS Integers, Sequences, FiniteSets, TLC

VARIABLES
    config,                     \* the loaded configuration (config._get_config)
    args,                       \* the parsed arguments: the set of flag attributes that are true
    resolved,                   \* the last Service.is_enabled call and what it returned
    env_file,                   \* the contents of docker-compose.env
    enabled_status_by_service,  \* the map the last _set_dynamic_options run was given
    run_input,                  \* the contents the last run read
    run_written,                \* whether the last run wrote the file
    runs,                       \* number of reconciler runs so far
    pc,                         \* position of the start-up sequencer
    dc_args,                    \* docker_compose_args of the invocation
    dev_project_names,          \* args.dev_project_names
    calls,                      \* the composition-tool invocations issued, in order
    exit_code,                  \* the sequencer's return value
    wait_index,                 \* index of the core service being waited for
    open_ports,                 \* the port map _wait_for_open_ports holds
    port_index,                 \* index of the published port / health check polled
    polls,                      \* number of readiness polls performed
    observed,                   \* the readiness polls performed and what they returned, in order
    signals,                    \* the signals sent to composition-tool processes, in order
    interrupts,                 \* the KeyboardInterrupts received, in order
    docker_compose_data,        \* the shared document _generate_docker_compose built and dumped
    tag,                        \* args.tag
    network_exists,             \* whether the docker network of the configuration exists
    directories,                \* the projects whose directory exists
    env_file_exists,            \* whether docker-compose.env exists
    templates,                  \* the docker-compose-template.yml of each developable project
    links,                      \* the projects whose directory holds a link to docker-compose.env
    template_config,            \* the context the last run rendered templates with
    rendered,                   \* the projects whose template the last run rendered, in order
    docker_compose_file,        \* who wrote the shared docker-compose.yml last
    init_result,                \* how the last init_docker_compose call ended
    config_file,                \* config.yml: absent, not valid YAML, or what yaml.safe_load returns
    load_result                 \* how the last config._get_config call ended

resolverVars == <<resolved>>
reconcilerVars == <<env_file, enabled_status_by_service, run_input, run_written, runs>>
sequencerVars == <<pc, dc_args, dev_project_names, calls, exit_code, wait_index,
                   open_ports, port_index, polls, observed, signals, interrupts>>
composerVars == <<docker_compose_data, tag, network_exists, directories, env_file_exists, templates,
                  links, template_config, rendered, docker_compose_file, init_result>>
loaderVars == <<config_file, load_result>>
vars == <<config, args, resolverVars, reconcilerVars, sequencerVars, composerVars, loaderVars>>

-----------------------------------------------------------------------------
(* Bounds of the model *)

MaxLines == 2
MaxRuns == 2
MaxPolls == 3

-----------------------------------------------------------------------------
(* Python values *)

\* dict.get(key) on a dict modelled as a function: None when the key is absent
None == [some |-> FALSE, v |-> <<>>]

Some(v) == [some |-> TRUE, v |-> v]

DictGet(d, k) == IF k \in DOMAIN d THEN Some(d[k]) ELSE None

\* truth value of an optional string
StrTruthy(o) == o.some /\ o.v # <<>>

\* the value of an 'enable' / 'disable' key: absent, a bool, an int or a string
Absent == [t |-> "absent", b |-> FALSE, n |-> 0, s |-> ""]

PyBool(b) == [t |-> "bool", b |-> b, n |-> 0, s |-> ""]

PyInt(n) == [t |-> "int", b |-> FALSE, n |-> n, s |-> ""]

PyStr(s) == [t |-> "str", b |-> FALSE, n |-> 0, s |-> s]

\* Python truthiness of such a value
Truthy(v) ==
    CASE v.t = "bool" -> v.b
      [] v.t = "int" -> v.n # 0
      [] v.t = "str" -> v.s # ""
      [] OTHER -> FALSE

IsStr(v) == v.t = "str"

-----------------------------------------------------------------------------
(* Configurations (the contents of config.yml after validation) *)

\* a service entry of config.yml
ServiceData(name, core, enable, disable, dynamic_options, wait_for_ports) ==
    [name |-> name, core |-> core, enable |-> enable, disable |-> disable,
     dynamic_options |-> dynamic_options, wait_for_ports |-> wait_for_ports,
     properties |-> <<>>]

\* a key of a service entry that is passed through to the composition tool;
\* every value is a list of strings
Property(key, value) == [key |-> key, value |-> value]

\* a service entry with pass-through keys, in the order of the file
WithProperties(data, properties) == [data EXCEPT !.properties = properties]

ProjectData(name, directory, services) ==
    [name |-> name, directory |-> directory, services |-> services]

\* test/__init__.py write_config: the sections every test configuration has
Config(projects) ==
    [prefixes |-> [service |-> "mynamespace_", core |-> "core_"],
     docker_compose |-> [project |-> "project1", network |-> "project1", registry |-> "registry1"],
     required_options |-> <<>>,
     projects |-> projects]

\* option tokens and option values of the dynamic-options configuration
TokA == <<"D", "A">>
TokB == <<"D", "B">>
TokC == <<"D", "C">>
ValE == <<"e">>
ValD == <<"d">>

DynOption(option, values) == [option |-> option, values |-> values]

\* the configuration of test_data.py (test_is_enabled), with a service for
\* every shape of 'enable' / 'disable' the resolver distinguishes
ConfigFlags ==
    Config(<<
        ProjectData("project1", "", <<
            ServiceData("no-flags", FALSE, Absent, Absent, <<>>, <<>>),
            ServiceData("enabled", FALSE, PyInt(1), Absent, <<>>, <<>>),
            ServiceData("disabled", FALSE, Absent, PyBool(TRUE), <<>>, <<>>),
            ServiceData("own", FALSE, PyBool(TRUE), Absent, <<>>, <<>>),
            ServiceData("shared", FALSE, PyStr("enabled"), Absent, <<>>, <<>>),
            ServiceData("falsy", FALSE, PyBool(FALSE), PyStr(""), <<>>, <<>>) >>),
        ProjectData("project2", "", <<
            ServiceData("enabled-proxy", FALSE, PyStr("enabled"), Absent, <<>>, <<>>),
            ServiceData("disabled-proxy", FALSE, Absent, PyStr("disabled"), <<>>, <<>>),
            ServiceData("both", FALSE, PyBool(TRUE), PyBool(TRUE), <<>>, <<>>),
            ServiceData("both-proxy", FALSE, PyStr("enabled"), PyStr("disabled"), <<>>, <<>>) >>) >>)

\* the configuration of test_docker_compose_utils_dynamic_options.py, reduced
\* to one option per shape: both values, an empty 'disabled' value, and no
\* 'disabled' value at all
ConfigDynamic ==
    Config(<<
        ProjectData("project-dynamic-options", "project-dynamic-options", <<
            ServiceData("dyn1", FALSE, PyBool(TRUE), Absent,
                <<DynOption(TokA, [enabled |-> ValE, disabled |-> ValD]),
                  DynOption(TokB, [enabled |-> ValE, disabled |-> <<>>])>>, <<>>),
            ServiceData("dyn3", FALSE, Absent, PyBool(TRUE),
                <<DynOption(TokC, [enabled |-> ValE])>>, <<>>),
            ServiceData("plain", FALSE, Absent, Absent, <<>>, <<>>) >>) >>)

\* a health check of a service: wait-for-ports maps a container port to a path
WaitForPort(port, path) == [port |-> port, path |-> path]

HttpPort == 80

AltPort == 81

\* a configuration shaped like the sample project of test_integration.py: two
\* core services that can be switched off or on, a shared service, and a
\* project that can be developed locally
ConfigSample ==
    Config(<<
        ProjectData("project-core", "project-core", <<
            ServiceData("core1", TRUE, Absent, PyBool(TRUE), <<>>,
                <<WaitForPort(HttpPort, "/health")>>),
            ServiceData("core2", TRUE, PyBool(TRUE), Absent, <<>>, <<>>),
            ServiceData("service1", FALSE, Absent, Absent, <<>>, <<>>) >>),
        ProjectData("project-dc-template", "project-dc-template", <<
            ServiceData("service3", FALSE, Absent, Absent, <<>>, <<>>) >>) >>)

\* the option the composer's configuration requires in the environment file
RequiredOption == <<"R">>

\* a configuration for the composer: services with and without their own
\* 'env_file' and 'networks', gated and ungated services, a service that is
\* enabled by another service's flag, two projects that declare a service of
\* the same name, a dynamic option, a required option and a registry for one
\* tag
ConfigCompose ==
    [Config(<<
        ProjectData("alpha", "alpha", <<
            WithProperties(ServiceData("web", FALSE, Absent, Absent, <<>>, <<>>),
                <<Property("image_path", <<"/web">>)>>),
            WithProperties(ServiceData("db", TRUE, Absent, Absent, <<>>, <<>>),
                <<Property("env_file", <<"./db.env">>), Property("networks", <<"backend">>)>>),
            WithProperties(ServiceData("cache", FALSE, PyBool(TRUE), Absent,
                               <<DynOption(TokA, [enabled |-> ValE, disabled |-> ValD])>>, <<>>),
                <<Property("env_file", <<>>), Property("image_path", <<"/cache">>)>>) >>),
        ProjectData("beta", "beta", <<
            WithProperties(ServiceData("api", FALSE, Absent, PyBool(TRUE), <<>>, <<>>),
                <<Property("networks", <<"backend">>)>>),
            ServiceData("web", FALSE, Absent, Absent, <<>>, <<>>) >>),
        ProjectData("gamma", "", <<
            ServiceData("proxy", FALSE, PyStr("cache"), Absent, <<>>, <<>>) >>) >>)
     EXCEPT !.docker_compose =
        [project |-> "project1", network |-> "project1", registry |-> "registry1",
         registries_by_tag |-> [dev |-> "registry-dev"],
         data |-> <<Property("volumes", <<"shared">>)>>],
            !.required_options = <<RequiredOption>>]

-----------------------------------------------------------------------------
(* data.py *)

\* Service(project_name, data)
Service(project_name, data) == [project_name |-> project_name, data |-> data]

\* Service.__eq__ / __hash__: identity is the pair (project name, service name)
ServiceKey(service) == <<service.project_name, service.data.name>>

\* Service.enable_flag
enable_flag(service) ==
    IF Truthy(service.data.enable) THEN service.data.enable ELSE PyBool(FALSE)

\* Service.disable_flag
disable_flag(service) ==
    IF Truthy(service.data.disable) THEN service.data.disable ELSE PyBool(FALSE)

\* Project.services
ProjectServices(project) ==
    [i \in 1..Len(project.services) |-> Service(project.name, project.services[i])]

\* Project.find_all
ProjectFindAll == config.projects

RECURSIVE ServicesOfProjects(_)
ServicesOfProjects(projects) ==
    IF projects = <<>> THEN <<>>
    ELSE ProjectServices(Head(projects)) \o ServicesOfProjects(Tail(projects))

\* Service.find_all()
ServiceFindAll == ServicesOfProjects(ProjectFindAll)

\* Service.find_all(core=True)
ServiceFindAllCore == SelectSeq(ServiceFindAll, LAMBDA s: s.data.core)

\* Service.find_has_enable_flag
find_has_enable_flag == SelectSeq(ServiceFindAll, LAMBDA s: Truthy(enable_flag(s)))

\* Service.find_has_disable_flag
find_has_disable_flag == SelectSeq(ServiceFindAll, LAMBDA s: Truthy(disable_flag(s)))

\* f'{prefix}_{name}': an attribute name of the argument namespace
FlagAttr(prefix, name) == <<prefix, name>>

\* a variant of _get_flag_name that ignores a string token
get_flag_name_own_name(service, flag_value, prefix) ==
    FlagAttr(prefix, service.data.name)

\* Service._get_flag_name
get_flag_name(service, flag_value, prefix) ==
    IF IsStr(flag_value) THEN FlagAttr(prefix, flag_value.s)
    ELSE FlagAttr(prefix, service.data.name)

\* getattr(args, name, False)
GetAttr(a, name) == name \in a

\* a variant of _get_flag_value that ignores 'reverse'
get_flag_value_not_reversed(a, service, flag_value, prefix, reverse) ==
    IF ~Truthy(flag_value) THEN FALSE
    ELSE GetAttr(a, get_flag_name(service, flag_value, prefix))

\* Service._get_flag_value
get_flag_value(a, service, flag_value, prefix, reverse) ==
    IF ~Truthy(flag_value) THEN FALSE
    ELSE LET arg_value == GetAttr(a, get_flag_name(service, flag_value, prefix))
         IN (arg_value /\ ~reverse) \/ (~arg_value /\ reverse)

\* a variant of is_enabled without the early return for unflagged services
is_enabled_no_default(service, a) ==
    get_flag_value(a, service, enable_flag(service), "enable", FALSE)
    \/ get_flag_value(a, service, disable_flag(service), "disable", TRUE)

\* a variant of is_enabled that requires both conditions
is_enabled_both_required(service, a) ==
    IF ~Truthy(enable_flag(service)) /\ ~Truthy(disable_flag(service)) THEN TRUE
    ELSE get_flag_value(a, service, enable_flag(service), "enable", FALSE)
         /\ get_flag_value(a, service, disable_flag(service), "disable", TRUE)

\* Service.is_enabled
is_enabled(service, a) ==
    IF ~Truthy(enable_flag(service)) /\ ~Truthy(disable_flag(service)) THEN TRUE
    ELSE get_flag_value(a, service, enable_flag(service), "enable", FALSE)
         \/ get_flag_value(a, service, disable_flag(service), "disable", TRUE)

\* every attribute name the parser writes (cli._parse_args) or the resolver reads
FlagAttrs ==
    {FlagAttr("enable", ServiceFindAll[i].data.name) :
        i \in {j \in DOMAIN ServiceFindAll : Truthy(enable_flag(ServiceFindAll[j]))}}
    \cup {FlagAttr("disable", ServiceFindAll[i].data.name) :
        i \in {j \in DOMAIN ServiceFindAll : Truthy(disable_flag(ServiceFindAll[j]))}}
    \cup {get_flag_name(ServiceFindAll[i], enable_flag(ServiceFindAll[i]), "enable") :
        i \in {j \in DOMAIN ServiceFindAll : Truthy(enable_flag(ServiceFindAll[j]))}}
    \cup {get_flag_name(ServiceFindAll[i], disable_flag(ServiceFindAll[i]), "disable") :
        i \in {j \in DOMAIN ServiceFindAll : Truthy(disable_flag(ServiceFindAll[j]))}}

Services == {ServiceFindAll[i] : i \in DOMAIN ServiceFindAll}

-----------------------------------------------------------------------------
(* Python string operations on sequences of characters *)

NL == "\n"

\* option in line: line has option as a contiguous substring
Contains(line, option) ==
    \E i \in 0..(Len(line) - Len(option)) :
        \A j \in 1..Len(option) : line[i + j] = option[j]

\* str.splitlines(): the lines between line breaks, without a last empty
\* line when the text ends in a line break
RECURSIVE SplitFrom(_, _, _)
SplitFrom(text, i, current) ==
    IF i > Len(text) THEN (IF current = <<>> THEN <<>> ELSE <<current>>)
    ELSE IF text[i] = NL THEN <<current>> \o SplitFrom(text, i + 1, <<>>)
    ELSE SplitFrom(text, i + 1, Append(current, text[i]))

splitlines(text) == SplitFrom(text, 1, <<>>)

\* '\n'.join(lines)
RECURSIVE join(_)
join(lines) ==
    IF lines = <<>> THEN <<>>
    ELSE IF Len(lines) = 1 THEN lines[1]
    ELSE lines[1] \o <<NL>> \o join(Tail(lines))

\* f'{option}={value}'
FormatOption(option, value) == option \o <<"=">> \o value

-----------------------------------------------------------------------------
(* docker_compose_utils.py: the dynamic environment reconciler *)

\* dict[key] = value on an insertion-ordered dict of option -> service
RECURSIVE DictSet(_, _, _)
DictSet(d, option, service) ==
    IF d = <<>> THEN <<[option |-> option, service |-> service]>>
    ELSE IF Head(d).option = option
         THEN <<[option |-> option, service |-> service]>> \o Tail(d)
         ELSE <<Head(d)>> \o DictSet(Tail(d), option, service)

RECURSIVE AddOptions(_, _, _)
AddOptions(d, service, i) ==
    IF i > Len(service.data.dynamic_options) THEN d
    ELSE AddOptions(DictSet(d, service.data.dynamic_options[i].option, service), service, i + 1)

RECURSIVE AddServices(_, _)
AddServices(d, services) ==
    IF services = <<>> THEN d
    ELSE AddServices(AddOptions(d, Head(services), 1), Tail(services))

\* services_by_dynamic_option, in dict order
services_by_dynamic_option == AddServices(<<>>, ServiceFindAll)

\* service.dynamic_options[option]
DynamicOptionValues(service, option) ==
    LET i == CHOOSE k \in DOMAIN service.data.dynamic_options :
                 service.data.dynamic_options[k].option = option
    IN service.data.dynamic_options[i].values

\* enabled_status_by_service.get(service, True)
StatusGet(status, service) ==
    IF ServiceKey(service) \in DOMAIN status THEN status[ServiceKey(service)] ELSE TRUE

\* the value selected for an option by the owning service's status
OptionValue(status, service, option) ==
    IF StatusGet(status, service)
    THEN DictGet(DynamicOptionValues(service, option), "enabled")
    ELSE DictGet(DynamicOptionValues(service, option), "disabled")

\* a variant of the handling of a matching line that keeps a line whose
\* option has no value
ApplyOptionKeepingEmpty(st, line, option, value) ==
    IF StrTruthy(value)
    THEN IF line # FormatOption(option, value.v)
         THEN [st EXCEPT !.new_contents = Append(@, FormatOption(option, value.v)),
                         !.lines_changed = TRUE]
         ELSE st
    ELSE [st EXCEPT !.new_contents = Append(@, line)]

\* the handling of a line in which the option occurs: replace, or remove
ApplyOption(st, line, option, value) ==
    IF StrTruthy(value)
    THEN IF line # FormatOption(option, value.v)
         THEN [st EXCEPT !.new_contents = Append(@, FormatOption(option, value.v)),
                         !.lines_changed = TRUE]
         ELSE st
    ELSE [st EXCEPT !.lines_changed = TRUE]

\* the inner loop over services_by_dynamic_option for one line
RECURSIVE ConsiderOptions(_, _, _, _)
ConsiderOptions(st, line, status, i) ==
    IF i > Len(services_by_dynamic_option) THEN st
    ELSE LET option == services_by_dynamic_option[i].option
             service == services_by_dynamic_option[i].service
         IN IF ~Contains(line, option) THEN ConsiderOptions(st, line, status, i + 1)
            ELSE ConsiderOptions(
                     ApplyOption([st EXCEPT !.option_considered = TRUE,
                                            !.seen = @ \cup {option}],
                                 line, option, OptionValue(status, service, option)),
                     line, status, i + 1)

\* the loop over the lines of the file
RECURSIVE ProcessLines(_, _, _)
ProcessLines(st, lines, status) ==
    IF lines = <<>> THEN st
    ELSE LET st1 == ConsiderOptions([st EXCEPT !.option_considered = FALSE],
                                    Head(lines), status, 1)
             st2 == IF ~st1.option_considered
                    THEN [st1 EXCEPT !.new_contents = Append(@, Head(lines))]
                    ELSE st1
         IN ProcessLines(st2, Tail(lines), status)

\* a variant of the addition of an unseen option that puts the new line first
AddUnseenOptionFirst(st, option, value) ==
    IF StrTruthy(value)
    THEN [st EXCEPT !.new_contents = <<FormatOption(option, value.v)>> \o @,
                    !.lines_changed = TRUE]
    ELSE st

\* the addition of an option that was not seen in any line
AddUnseenOption(st, option, value) ==
    IF StrTruthy(value)
    THEN [st EXCEPT !.new_contents = Append(@, FormatOption(option, value.v)),
                    !.lines_changed = TRUE]
    ELSE st

\* the loop over the options after the lines
RECURSIVE AddUnseen(_, _, _)
AddUnseen(st, status, i) ==
    IF i > Len(services_by_dynamic_option) THEN st
    ELSE LET option == services_by_dynamic_option[i].option
             service == services_by_dynamic_option[i].service
         IN IF option \in st.seen THEN AddUnseen(st, status, i + 1)
            ELSE AddUnseen(AddUnseenOption(st, option, OptionValue(status, service, option)),
                           status, i + 1)

\* _set_dynamic_options: what it writes, and whether it writes, for the file
\* contents it reads
set_dynamic_options(contents, status) ==
    LET st0 == [new_contents |-> <<>>, lines_changed |-> FALSE, seen |-> {},
                option_considered |-> FALSE]
        st == AddUnseen(ProcessLines(st0, splitlines(contents), status), status, 1)
    IN [written |-> st.lines_changed,
        contents |-> IF st.lines_changed THEN join(st.new_contents) ELSE contents]

RECURSIVE StatusOfEnabled(_, _, _)
StatusOfEnabled(status, services, a) ==
    IF services = <<>> THEN status
    ELSE LET key == ServiceKey(Head(services))
             value == GetAttr(a, FlagAttr("enable", Head(services).data.name))
         IN StatusOfEnabled([k \in DOMAIN status \cup {key} |->
                                IF k = key THEN value ELSE status[k]],
                            Tail(services), a)

RECURSIVE StatusOfDisabled(_, _, _)
StatusOfDisabled(status, services, a) ==
    IF services = <<>> THEN status
    ELSE LET key == ServiceKey(Head(services))
             value == ~GetAttr(a, FlagAttr("disable", Head(services).data.name))
         IN StatusOfDisabled([k \in DOMAIN status \cup {key} |->
                                 IF k = key THEN value ELSE status[k]],
                             Tail(services), a)

\* the enabled_status_by_service map init_docker_compose builds from the arguments
EnabledStatusByService(a) ==
    StatusOfDisabled(StatusOfEnabled(<<>>, find_has_enable_flag, a), find_has_disable_flag, a)

-----------------------------------------------------------------------------
(* Values of the variables a specification does not use *)

NotResolved == [called |-> FALSE, service |-> Service("", ServiceData("", FALSE, Absent, Absent, <<>>, <<>>)),
                result |-> FALSE]

ResolverIdle == resolved = NotResolved

ReconcilerIdle ==
    /\ env_file = <<>>
    /\ enabled_status_by_service = <<>>
    /\ run_input = <<>>
    /\ run_written = FALSE
    /\ runs = 0

\* the shared document before it is generated
NoDocument == [version |-> "", networks |-> <<>>, services |-> <<>>, extra |-> <<>>]

\* init_docker_compose has not been called
NotCalled == [called |-> FALSE, exception |-> "", raised_by |-> ""]

\* init_docker_compose returned
InitReturned == [called |-> TRUE, exception |-> "", raised_by |-> ""]

\* raise KnownException(...) in the given function
KnownException(raised_by) == [called |-> TRUE, exception |-> "KnownException", raised_by |-> raised_by]

\* the shared docker-compose.yml before anything wrote it
NoFile == [source |-> "none", project |-> ""]

\* the rendering context before anything was rendered
NoContext ==
    [dev_project_names |-> <<>>, enabled_services |-> <<>>, tag |-> "", registry |-> "",
     network |-> "", core_prefix |-> "", service_prefix |-> ""]

ComposerIdle ==
    /\ docker_compose_data = NoDocument
    /\ tag = ""
    /\ network_exists = FALSE
    /\ directories = {}
    /\ env_file_exists = TRUE
    /\ templates = <<>>
    /\ links = {}
    /\ template_config = NoContext
    /\ rendered = <<>>
    /\ docker_compose_file = NoFile
    /\ init_result = NotCalled

LoaderIdle ==
    /\ config_file = [state |-> "absent"]
    /\ load_result = "not loaded"

SequencerIdle ==
    /\ pc = "idle"
    /\ dc_args = <<>>
    /\ dev_project_names = {}
    /\ calls = <<>>
    /\ exit_code = 0
    /\ wait_index = 0
    /\ open_ports = <<>>
    /\ port_index = 0
    /\ polls = 0
    /\ observed = <<>>
    /\ signals = <<>>
    /\ interrupts = <<>>

-----------------------------------------------------------------------------
(* The service resolver: Service.is_enabled applied to parsed arguments *)

ResolverInit ==
    /\ config = ConfigFlags
    /\ args \in SUBSET FlagAttrs
    /\ ResolverIdle
    /\ ReconcilerIdle
    /\ SequencerIdle
    /\ ComposerIdle
    /\ LoaderIdle

\* service.is_enabled(args)
IsEnabledCall(service) ==
    /\ resolved' = [called |-> TRUE, service |-> service, result |-> is_enabled(service, args)]
    /\ UNCHANGED <<config, args, reconcilerVars, sequencerVars, composerVars, loaderVars>>

ResolverNext == \E service \in Services : IsEnabledCall(service)

SpecResolver == ResolverInit /\ [][ResolverNext]_vars

-----------------------------------------------------------------------------
(* The reconciler: init_docker_compose run again and again on one          *)
(* environment file, each time with the flags of that invocation           *)

\* lines an environment file may start with: plain lines, lines that assign
\* an option, and lines in which an option token occurs without being assigned
EnvLines ==
    { <<"K", "=", "v">>,
      <<>>,
      FormatOption(TokA, ValE),
      FormatOption(TokA, ValD),
      FormatOption(TokB, ValE),
      FormatOption(TokC, ValE),
      <<"K">> \o TokA \o <<"=", "v">>,
      TokA \o <<"K", "=", "v">>,
      <<"K", "=">> \o TokB }

SeqsUpTo(S, n) == UNION {[1..k -> S] : k \in 0..n}

InitialFiles ==
    {join(lines) \o ending : lines \in SeqsUpTo(EnvLines, MaxLines), ending \in {<<>>, <<NL>>}}

ReconcilerInit ==
    /\ config = ConfigDynamic
    /\ args = {}
    /\ env_file \in InitialFiles
    /\ enabled_status_by_service = <<>>
    /\ run_input = <<>>
    /\ run_written = FALSE
    /\ runs = 0
    /\ ResolverIdle
    /\ SequencerIdle
    /\ ComposerIdle
    /\ LoaderIdle

\* init_docker_compose(args, ...): builds the status map and reconciles the file
Reconcile(a) ==
    /\ runs < MaxRuns
    /\ LET status == EnabledStatusByService(a)
           result == set_dynamic_options(env_file, status)
       IN /\ args' = a
          /\ enabled_status_by_service' = status
          /\ run_input' = env_file
          /\ run_written' = result.written
          /\ env_file' = result.contents
          /\ runs' = runs + 1
    /\ UNCHANGED <<config, resolverVars, sequencerVars, composerVars, loaderVars>>

ReconcilerNext == \E a \in SUBSET FlagAttrs : Reconcile(a)

SpecReconciler == ReconcilerInit /\ [][ReconcilerNext]_vars

-----------------------------------------------------------------------------
(* commands.py: the start-up sequencer, _run_docker_compose_with_projects  *)

\* Service.container_name / Service.dc_name
container_name(service) ==
    (IF service.data.core THEN config.prefixes.core ELSE config.prefixes.service)
    \o service.data.name

\* the docker-compose arguments an invocation may pass through
DcArgChoices ==
    { <<"up">>, <<"up", "--detach">>, <<"up", "-d">>, <<"up", "--force-recreate">>,
      <<"up", "mynamespace_service1">>, <<"down", "--remove-orphans">> }

\* arg.startswith('-'), over the arguments that occur
StartsWithDash(arg) == arg \in {"--detach", "-d", "--force-recreate", "--remove-orphans", "-p", "-f"}

\* x in list
InList(x, list) == \E i \in DOMAIN list : list[i] = x

\* _get_dev_projects(args)
get_dev_projects == SelectSeq(ProjectFindAll, LAMBDA project : project.name \in dev_project_names)

\* Project.path
ProjectPath(project) == "../" \o project.directory

\* the projects the parser accepts for -p: those with a directory
DevelopableProjects ==
    {ProjectFindAll[i].name : i \in {j \in DOMAIN ProjectFindAll : ProjectFindAll[j].directory # ""}}

RECURSIVE DevFileArgs(_)
DevFileArgs(projects) ==
    IF projects = <<>> THEN <<>>
    ELSE <<"-f", ProjectPath(Head(projects)) \o "/docker-compose.yml">> \o DevFileArgs(Tail(projects))

\* commands, as built before the staged start-up
BaseCommands ==
    <<"docker-compose", "-p", config.docker_compose.project, "-f", "docker-compose.yml">>
    \o DevFileArgs(get_dev_projects) \o dc_args

\* a variant of the condition that only looks for 'up'
IsStagedUpAnyArguments == InList("up", dc_args)

\* the condition for the staged start-up
IsStagedUp ==
    /\ InList("up", dc_args)
    /\ \A i \in DOMAIN dc_args : StartsWithDash(dc_args[i]) \/ dc_args[i] = "up"

\* commands with --detach appended unless --detach or -d is present
WithDetach(commands) ==
    IF ~InList("--detach", commands) /\ ~InList("-d", commands)
    THEN Append(commands, "--detach")
    ELSE commands

\* core_services
core_services == SelectSeq(ServiceFindAllCore, LAMBDA service : is_enabled(service, args))

\* core_service_names
core_service_names == [i \in DOMAIN core_services |-> container_name(core_services[i])]

\* the keys of the 'services' section _generate_docker_compose writes to the
\* shared document: the enabled services of the projects that are not developed
RECURSIVE GeneratedServices(_, _, _)
GeneratedServices(names, services, status) ==
    IF services = <<>> THEN names
    ELSE LET service == Head(services)
             skip == \/ service.project_name \in dev_project_names
                     \/ /\ Truthy(enable_flag(service)) \/ Truthy(disable_flag(service))
                        /\ ~StatusGet(status, service)
         IN GeneratedServices(
                IF skip \/ InList(container_name(service), names) THEN names
                ELSE Append(names, container_name(service)),
                Tail(services), status)

\* docker_utils.read_services_from_dc(config.get_docker_compose_path())
SharedDocServices == GeneratedServices(<<>>, ServiceFindAll, EnabledStatusByService(args))

\* docker_utils.read_services_from_dc of a developed project's own document,
\* which declares that project's services under the development prefix
DevDocServices(project) ==
    [i \in 1..Len(project.services) |-> "pydcdev_" \o project.services[i].name]

RECURSIVE AllDevDocServices(_)
AllDevDocServices(projects) ==
    IF projects = <<>> THEN <<>>
    ELSE DevDocServices(Head(projects)) \o AllDevDocServices(Tail(projects))

\* a variant of the filter that keeps every service
NotCoreKeepingAll(services) == services

\* filter(lambda service: service not in core_service_names, services)
NotCore(services) == SelectSeq(services, LAMBDA name : ~InList(name, core_service_names))

core_commands == WithDetach(BaseCommands) \o core_service_names

base_commands == WithDetach(BaseCommands) \o NotCore(SharedDocServices)

\* commands of the last invocation
final_commands ==
    IF ~IsStagedUp THEN BaseCommands
    ELSE IF get_dev_projects # <<>> THEN BaseCommands \o AllDevDocServices(get_dev_projects)
    ELSE BaseCommands \o NotCore(SharedDocServices)

\* subprocess.Popen(commands): a running invocation of the composition tool
Invocation(stage, commands) ==
    [stage |-> stage, commands |-> commands, returned |-> FALSE, code |-> 0]

\* process.wait() returned
Returned(call, code) == [call EXCEPT !.returned = TRUE, !.code = code]

ExitCodes == {0, 1, 2}

\* the port maps 'docker port' may list for a container once its ports are mapped
PublishedChoices(service) ==
    IF service.data.name = "core1"
    THEN { <<[container_port |-> HttpPort, host_port |-> 8000 + HttpPort]>>,
           <<[container_port |-> AltPort, host_port |-> 8000 + AltPort]>>,
           <<[container_port |-> AltPort, host_port |-> 8000 + AltPort],
             [container_port |-> HttpPort, host_port |-> 8000 + HttpPort]>> }
    ELSE { <<[container_port |-> AltPort, host_port |-> 8000 + AltPort]>> }

\* the position after the core services are ready: the base invocation when
\* projects are developed, else the last invocation
StartDependents(cs) ==
    IF get_dev_projects # <<>>
    THEN [pc |-> "base_call", calls |-> Append(cs, Invocation("base", base_commands)),
          wait_index |-> 0, port_index |-> 0]
    ELSE [pc |-> "final_call", calls |-> Append(cs, Invocation("final", final_commands)),
          wait_index |-> 0, port_index |-> 0]

\* for service in core_services: _wait_for_open_ports(service)
WaitForService(i, cs) ==
    IF i > Len(core_services) THEN StartDependents(cs)
    ELSE [pc |-> "wait_list", calls |-> cs, wait_index |-> i, port_index |-> 0]

\* a variant that goes on to the next service without the health checks
CheckPortFromSkippingHealth(i, k, ports, cs) == WaitForService(i + 1, cs)

\* for port, path in service.wait_for_ports.items(): check_port(..., open_ports[port], path)
CheckPortFrom(i, k, ports, cs) ==
    IF k > Len(core_services[i].data.wait_for_ports) THEN WaitForService(i + 1, cs)
    ELSE IF \E j \in DOMAIN ports :
                ports[j].container_port = core_services[i].data.wait_for_ports[k].port
         THEN [pc |-> "wait_health", calls |-> cs, wait_index |-> i, port_index |-> k]
         ELSE [pc |-> "error", calls |-> cs, wait_index |-> i, port_index |-> k]

\* open_ports[port]: the host port published for a container port
HostPort(ports, container_port) ==
    LET j == CHOOSE k \in DOMAIN ports : ports[k].container_port = container_port
    IN ports[j].host_port

\* one readiness poll: a listing of the published ports of the container, a
\* raw connection to a host port, or a GET of a path on a host port
Poll(service, kind, ports, host_port, path, ok) ==
    [service |-> container_name(service), kind |-> kind, ports |-> ports,
     host_port |-> host_port, path |-> path, ok |-> ok]

Goto(next) ==
    /\ pc' = next.pc
    /\ calls' = next.calls
    /\ wait_index' = next.wait_index
    /\ port_index' = next.port_index

SequencerInit ==
    /\ config = ConfigSample
    /\ args \in SUBSET FlagAttrs
    /\ dc_args \in DcArgChoices
    /\ dev_project_names \in SUBSET DevelopableProjects
    /\ pc = "start"
    /\ calls = <<>>
    /\ exit_code = 0
    /\ wait_index = 0
    /\ open_ports = <<>>
    /\ port_index = 0
    /\ polls = 0
    /\ observed = <<>>
    /\ signals = <<>>
    /\ interrupts = <<>>
    /\ ResolverIdle
    /\ ReconcilerIdle
    /\ ComposerIdle
    /\ LoaderIdle

\* entry: the core invocation of a staged start-up, else the only invocation
Start ==
    /\ pc = "start"
    /\ IF IsStagedUp
       THEN /\ calls' = Append(calls, Invocation("core", core_commands))
            /\ pc' = "core_call"
       ELSE /\ calls' = Append(calls, Invocation("final", final_commands))
            /\ pc' = "final_call"
    /\ UNCHANGED <<config, args, resolverVars, reconcilerVars, composerVars, loaderVars,
                   dc_args, dev_project_names, signals, interrupts,
                   exit_code, wait_index, open_ports, port_index, polls, observed>>

\* exit_code = call_commands(core_commands); if exit_code: return exit_code
CoreReturns(code) ==
    /\ pc = "core_call"
    /\ LET cs == [calls EXCEPT ![Len(calls)] = Returned(@, code)]
       IN IF code # 0
          THEN /\ calls' = cs
               /\ exit_code' = code
               /\ pc' = "done"
               /\ UNCHANGED <<wait_index, port_index>>
          ELSE /\ Goto(WaitForService(1, cs))
               /\ UNCHANGED exit_code
    /\ UNCHANGED <<config, args, resolverVars, reconcilerVars, composerVars, loaderVars,
                   dc_args, dev_project_names, signals, interrupts,
                   open_ports, polls, observed>>

\* open_ports = docker_utils.get_open_ports(service.container_name)
ListPorts(ports) ==
    /\ pc = "wait_list"
    /\ ports = <<>> => polls < MaxPolls
    /\ polls' = polls + 1
    /\ open_ports' = ports
    /\ observed' = Append(observed, Poll(core_services[wait_index], "list", ports, 0, "",
                                         ports # <<>>))
    /\ IF ports = <<>>
       THEN UNCHANGED <<pc, calls, wait_index, port_index>>
       ELSE Goto([pc |-> "wait_port", calls |-> calls, wait_index |-> wait_index, port_index |-> 1])
    /\ UNCHANGED <<config, args, resolverVars, reconcilerVars, composerVars, loaderVars,
                   dc_args, dev_project_names, signals, interrupts,
                   exit_code>>

\* a variant of the connection loop that gives up after a refused connection
\* once a poll has been made before
ConnectPortGivingUp(is_open) ==
    /\ pc = "wait_port"
    /\ ~is_open => polls < MaxPolls
    /\ polls' = polls + 1
    /\ observed' = Append(observed, Poll(core_services[wait_index], "connect", open_ports,
                                         open_ports[port_index].host_port, "", is_open))
    /\ IF ~is_open
       THEN IF polls >= 1
            THEN /\ pc' = "done"
                 /\ exit_code' = 1
                 /\ UNCHANGED <<calls, wait_index, port_index>>
            ELSE UNCHANGED <<pc, calls, wait_index, port_index, exit_code>>
       ELSE /\ UNCHANGED exit_code
            /\ IF port_index < Len(open_ports)
               THEN Goto([pc |-> "wait_port", calls |-> calls, wait_index |-> wait_index,
                          port_index |-> port_index + 1])
               ELSE Goto(CheckPortFrom(wait_index, 1, open_ports, calls))
    /\ UNCHANGED <<config, args, resolverVars, reconcilerVars, composerVars, loaderVars,
                   dc_args, dev_project_names, signals, interrupts, open_ports>>

\* a variant of the connection loop in which no port ever accepts a connection
ConnectPortNeverOpen(is_open) ==
    /\ pc = "wait_port"
    /\ polls < MaxPolls
    /\ polls' = polls + 1
    /\ observed' = Append(observed, Poll(core_services[wait_index], "connect", open_ports,
                                         open_ports[port_index].host_port, "", FALSE))
    /\ UNCHANGED <<config, args, resolverVars, reconcilerVars, composerVars, loaderVars,
                   dc_args, dev_project_names, signals, interrupts,
                   pc, calls, wait_index, port_index, exit_code, open_ports>>

\* while not docker_utils.is_port_open(host_port)
ConnectPort(is_open) ==
    /\ pc = "wait_port"
    /\ ~is_open => polls < MaxPolls
    /\ polls' = polls + 1
    /\ observed' = Append(observed, Poll(core_services[wait_index], "connect", open_ports,
                                         open_ports[port_index].host_port, "", is_open))
    /\ IF ~is_open
       THEN UNCHANGED <<pc, calls, wait_index, port_index>>
       ELSE IF port_index < Len(open_ports)
       THEN Goto([pc |-> "wait_port", calls |-> calls, wait_index |-> wait_index,
                  port_index |-> port_index + 1])
       ELSE Goto(CheckPortFrom(wait_index, 1, open_ports, calls))
    /\ UNCHANGED <<config, args, resolverVars, reconcilerVars, composerVars, loaderVars,
                   dc_args, dev_project_names, signals, interrupts,
                   exit_code, open_ports>>

\* docker_utils.check_port: while not _is_path_responding(port, path)
CheckHealth(responding) ==
    /\ pc = "wait_health"
    /\ ~responding => polls < MaxPolls
    /\ polls' = polls + 1
    /\ observed' = Append(observed,
            Poll(core_services[wait_index], "health", open_ports,
                 HostPort(open_ports, core_services[wait_index].data.wait_for_ports[port_index].port),
                 core_services[wait_index].data.wait_for_ports[port_index].path, responding))
    /\ IF ~responding
       THEN UNCHANGED <<pc, calls, wait_index, port_index>>
       ELSE Goto(CheckPortFrom(wait_index, port_index + 1, open_ports, calls))
    /\ UNCHANGED <<config, args, resolverVars, reconcilerVars, composerVars, loaderVars,
                   dc_args, dev_project_names, signals, interrupts,
                   exit_code, open_ports>>

\* a variant of the base stage that ignores the exit code of the base invocation
BaseReturnsIgnoringExit(code) ==
    /\ pc = "base_call"
    /\ calls' = Append([calls EXCEPT ![Len(calls)] = Returned(@, code)],
                       Invocation("final", final_commands))
    /\ pc' = "final_call"
    /\ UNCHANGED <<config, args, resolverVars, reconcilerVars, composerVars, loaderVars,
                   dc_args, dev_project_names, signals, interrupts,
                   exit_code, wait_index, open_ports, port_index, polls, observed>>

\* exit_code = subprocess.call(base_commands); if exit_code: return exit_code
BaseReturns(code) ==
    /\ pc = "base_call"
    /\ LET cs == [calls EXCEPT ![Len(calls)] = Returned(@, code)]
       IN IF code # 0
          THEN /\ calls' = cs
               /\ exit_code' = code
               /\ pc' = "done"
          ELSE /\ calls' = Append(cs, Invocation("final", final_commands))
               /\ pc' = "final_call"
               /\ UNCHANGED exit_code
    /\ UNCHANGED <<config, args, resolverVars, reconcilerVars, composerVars, loaderVars,
                   dc_args, dev_project_names, signals, interrupts,
                   wait_index, open_ports, port_index, polls, observed>>

\* return call_commands(commands)
FinalReturns(code) ==
    /\ pc = "final_call"
    /\ calls' = [calls EXCEPT ![Len(calls)] = Returned(@, code)]
    /\ exit_code' = code
    /\ pc' = "done"
    /\ UNCHANGED <<config, args, resolverVars, reconcilerVars, composerVars, loaderVars,
                   dc_args, dev_project_names, signals, interrupts,
                   wait_index, open_ports, port_index, polls, observed>>

\* KeyboardInterrupt while call_commands waits for the child: the first one
\* is passed on to the child as SIGINT and the wait goes on; one that arrives
\* during that second wait leaves call_commands
InterruptCallCommands ==
    /\ pc \in {"core_call", "final_call"}
    /\ interrupts' = Append(interrupts, [pc |-> pc, call |-> Len(calls)])
    /\ IF \E i \in DOMAIN signals : signals[i].call = Len(calls)
       THEN /\ pc' = "interrupted"
            /\ UNCHANGED signals
       ELSE /\ signals' = Append(signals, [call |-> Len(calls), signal |-> "SIGINT"])
            /\ UNCHANGED pc
    /\ UNCHANGED <<config, args, resolverVars, reconcilerVars, composerVars, loaderVars,
                   dc_args, dev_project_names, calls, exit_code, wait_index, open_ports,
                   port_index, polls, observed>>

\* KeyboardInterrupt while subprocess.call waits for the base invocation:
\* subprocess.call kills the child, unless it has exited meanwhile, and
\* raises the interrupt again
InterruptBaseCall(exited) ==
    /\ pc = "base_call"
    /\ interrupts' = Append(interrupts, [pc |-> pc, call |-> Len(calls)])
    /\ signals' = IF exited THEN signals
                  ELSE Append(signals, [call |-> Len(calls), signal |-> "SIGKILL"])
    /\ pc' = "interrupted"
    /\ UNCHANGED <<config, args, resolverVars, reconcilerVars, composerVars, loaderVars,
                   dc_args, dev_project_names, calls, exit_code, wait_index, open_ports,
                   port_index, polls, observed>>

\* KeyboardInterrupt while polling for readiness: nothing catches it
InterruptPolling ==
    /\ pc \in {"wait_list", "wait_port", "wait_health"}
    /\ interrupts' = Append(interrupts, [pc |-> pc, call |-> 0])
    /\ pc' = "interrupted"
    /\ UNCHANGED <<config, args, resolverVars, reconcilerVars, composerVars, loaderVars,
                   dc_args, dev_project_names, calls, exit_code, wait_index, open_ports,
                   port_index, polls, observed, signals>>

SequencerNext ==
    \/ Start
    \/ \E code \in ExitCodes : CoreReturns(code)
    \/ /\ pc = "wait_list"
       /\ \E ports \in {<<>>} \cup PublishedChoices(core_services[wait_index]) : ListPorts(ports)
    \/ \E is_open \in BOOLEAN : ConnectPort(is_open)
    \/ \E responding \in BOOLEAN : CheckHealth(responding)
    \/ \E code \in ExitCodes : BaseReturns(code)
    \/ \E code \in ExitCodes : FinalReturns(code)
    \/ InterruptCallCommands
    \/ \E exited \in BOOLEAN : InterruptBaseCall(exited)
    \/ InterruptPolling

SpecSequencer == SequencerInit /\ [][SequencerNext]_vars

\* what the environment of a start-up is taken to do in the end: every
\* invocation of the composition tool returns, the container of a core
\* service lists a published port, a published port accepts a connection,
\* and a health check answers with success
SequencerFairness ==
    /\ WF_vars(Start)
    /\ WF_vars(\E code \in ExitCodes : CoreReturns(code))
    /\ WF_vars(\E code \in ExitCodes : BaseReturns(code))
    /\ WF_vars(\E code \in ExitCodes : FinalReturns(code))
    /\ WF_vars(/\ pc = "wait_list"
               /\ \E ports \in PublishedChoices(core_services[wait_index]) : ListPorts(ports))
    /\ WF_vars(ConnectPort(TRUE))
    /\ WF_vars(CheckHealth(TRUE))

SpecSequencerFair == SequencerInit /\ [][SequencerNext]_vars /\ SequencerFairness

-----------------------------------------------------------------------------
(* docker_compose_utils.py: the topology composer, _generate_docker_compose *)

\* config.ENV_FILE
ENV_FILE == "docker-compose.env"

\* the values -t / --tag accepts
Tags == {"latest", "dev", "stage", "prod"}

\* config.get_registry(tag)
get_registry(t) ==
    LET dc_config == config.docker_compose
    IN IF "registries_by_tag" \in DOMAIN dc_config /\ t \in DOMAIN dc_config.registries_by_tag
       THEN dc_config.registries_by_tag[t]
       ELSE dc_config.registry

\* config.get_dc_data(): the keys of the docker-compose section other than
\* build-args, tags, registries-by-tag, registry, project and network
get_dc_data ==
    IF "data" \in DOMAIN config.docker_compose THEN config.docker_compose.data ELSE <<>>

\* key in data
HasKey(data, key) == \E i \in DOMAIN data : data[i].key = key

\* data[key]
ValueOf(data, key) == data[CHOOSE i \in DOMAIN data : data[i].key = key].value

\* data[key] = value on an insertion-ordered dict
RECURSIVE PropertySet(_, _, _)
PropertySet(data, key, value) ==
    IF data = <<>> THEN <<Property(key, value)>>
    ELSE IF Head(data).key = key THEN <<Property(key, value)>> \o Tail(data)
    ELSE <<Head(data)>> \o PropertySet(Tail(data), key, value)

\* the loop of Service.get_dc_data over the keys of the service entry that
\* are not name, core, enable, disable, dynamic-options or wait-for-ports
RECURSIVE CopyProperties(_, _, _, _)
CopyProperties(data, properties, registry, t) ==
    IF properties = <<>> THEN data
    ELSE LET key == Head(properties).key
             value == Head(properties).value
         IN CopyProperties(
                IF key = "image_path"
                THEN PropertySet(data, "image", <<registry \o value[1] \o ":" \o t>>)
                ELSE PropertySet(data, key, value),
                Tail(properties), registry, t)

\* Service.get_dc_data(registry, tag)
get_dc_data_of(service, registry, t) ==
    CopyProperties(<<Property("container_name", <<container_name(service)>>)>>,
                   service.data.properties, registry, t)

\* a variant that sets the environment file and the network of every entry
WithDefaultsAlways(data) ==
    PropertySet(PropertySet(data, "env_file", <<"./" \o ENV_FILE>>),
                "networks", <<config.docker_compose.network>>)

\* the environment file and the network added to an entry that has none
WithDefaults(data) ==
    LET data1 == IF ~HasKey(data, "env_file")
                 THEN PropertySet(data, "env_file", <<"./" \o ENV_FILE>>)
                 ELSE data
    IN IF ~HasKey(data1, "networks")
       THEN PropertySet(data1, "networks", <<config.docker_compose.network>>)
       ELSE data1

\* an entry of the 'services' section; 'source' is the service it was built
\* from, which the file does not hold
Entry(name, data, source) == [name |-> name, data |-> data, source |-> source]

\* services[service.dc_name] = data
RECURSIVE EntrySet(_, _)
EntrySet(entries, entry) ==
    IF entries = <<>> THEN <<entry>>
    ELSE IF Head(entries).name = entry.name THEN <<entry>> \o Tail(entries)
    ELSE <<Head(entries)>> \o EntrySet(Tail(entries), entry)

\* the loop over the services of one project
RECURSIVE ComposeServices(_, _, _, _)
ComposeServices(entries, services, t, status) ==
    IF services = <<>> THEN entries
    ELSE LET service == Head(services)
         IN IF /\ Truthy(enable_flag(service)) \/ Truthy(disable_flag(service))
               /\ ~StatusGet(status, service)
            THEN ComposeServices(entries, Tail(services), t, status)
            ELSE ComposeServices(
                     EntrySet(entries,
                              Entry(container_name(service),
                                    WithDefaults(get_dc_data_of(service, get_registry(t), t)),
                                    ServiceKey(service))),
                     Tail(services), t, status)

\* a variant of the test that takes no project for a developed one
IsDevProjectNever(project, dev) == FALSE

\* project.name in dev_project_names
IsDevProject(project, dev) == project.name \in dev

\* the loop over the projects, without those that are developed
RECURSIVE ComposeProjects(_, _, _, _, _)
ComposeProjects(entries, projects, dev, t, status) ==
    IF projects = <<>> THEN entries
    ELSE IF IsDevProject(Head(projects), dev)
         THEN ComposeProjects(entries, Tail(projects), dev, t, status)
         ELSE ComposeProjects(ComposeServices(entries, ProjectServices(Head(projects)), t, status),
                              Tail(projects), dev, t, status)

\* _generate_docker_compose: the document it dumps to docker-compose.yml;
\* 'extra' holds the keys docker_compose_data.update adds
generate_docker_compose(dev, t, status) ==
    [version |-> "3",
     networks |-> <<[name |-> config.docker_compose.network, external |-> TRUE]>>,
     services |-> ComposeProjects(<<>>, ProjectFindAll, dev, t, status),
     extra |-> get_dc_data]

\* the dev projects of an invocation, in configuration order
DevProjects(dev) == SelectSeq(ProjectFindAll, LAMBDA project : project.name \in dev)

\* _check_project_directories(projects): every project's path is a directory
check_project_directories(dev) == \A name \in dev : name \in directories

\* a variant of the check of the environment file that only looks for the file
check_required_options_file_only == env_file_exists

\* _check_required_options: the file exists and every required option occurs
\* in its contents
check_required_options ==
    /\ env_file_exists
    /\ \A i \in DOMAIN config.required_options : Contains(env_file, config.required_options[i])

\* _link_config(projects): afterwards every project's directory holds a link
link_config(dev) == links \cup dev

\* the services in the order of enabled_status_by_service.items()
StatusItems ==
    find_has_enable_flag
    \o SelectSeq(find_has_disable_flag, LAMBDA service : ~Truthy(enable_flag(service)))

\* enabled_services[service.name] = status, for the items in order
RECURSIVE EnabledServices(_, _, _)
EnabledServices(result, services, status) ==
    IF services = <<>> THEN result
    ELSE LET name == Head(services).data.name
         IN EnabledServices([n \in DOMAIN result \cup {name} |->
                                IF n = name THEN status[ServiceKey(Head(services))]
                                ELSE result[n]],
                            Tail(services), status)

\* template_config
TemplateConfig(dev, t, status) ==
    [dev_project_names |-> [i \in DOMAIN DevProjects(dev) |-> DevProjects(dev)[i].name],
     enabled_services |-> EnabledServices(<<>>, StatusItems, status),
     tag |-> t,
     registry |-> get_registry(t),
     network |-> config.docker_compose.network,
     core_prefix |-> config.prefixes.core,
     service_prefix |-> config.prefixes.service]

\* _render_docker_compose_file for the dev projects in order: a project
\* without a template is skipped, a template with a syntax error ends the
\* run, and the output of a template is written to
\* config.get_docker_compose_path(), the path of the shared document
RECURSIVE RenderProjects(_, _)
RenderProjects(st, projects) ==
    IF projects = <<>> \/ st.result # InitReturned THEN st
    ELSE LET name == Head(projects).name
         IN RenderProjects(
                IF templates[name] = "none" THEN st
                ELSE IF templates[name] = "syntax error"
                     THEN [st EXCEPT !.result = KnownException("_render_docker_compose_file")]
                     ELSE [st EXCEPT !.file = [source |-> "rendered", project |-> name],
                                     !.rendered = Append(@, name)],
                Tail(projects))

\* what an invocation may find on disk: which project directories exist,
\* the environment file (none, one without the required option, one with
\* it), and the template of each developable project (none, one that
\* renders, one with a syntax error)
Environment(dirs, exists, contents, alpha, beta) ==
    [directories |-> dirs, env_file_exists |-> exists, env_file |-> contents,
     templates |-> [name \in DevelopableProjects |-> IF name = "alpha" THEN alpha ELSE beta]]

Environments ==
    { Environment({"alpha", "beta"}, TRUE, RequiredOption \o <<"=", "1">>, "valid", "none"),
      Environment({"alpha", "beta"}, TRUE, RequiredOption \o <<"=", "1">>, "valid", "valid"),
      Environment({"alpha", "beta"}, TRUE, RequiredOption \o <<"=", "1">>, "syntax error", "valid"),
      Environment({"beta"}, TRUE, RequiredOption \o <<"=", "1">>, "valid", "none"),
      Environment({"alpha", "beta"}, FALSE, <<>>, "valid", "none"),
      Environment({"alpha", "beta"}, TRUE, <<"K", "=", "v">>, "valid", "none"),
      Environment({}, FALSE, <<>>, "none", "none") }

ComposerInit ==
    /\ config = ConfigCompose
    /\ args = {}
    /\ docker_compose_data = NoDocument
    /\ tag = ""
    /\ network_exists = FALSE
    /\ \E environment \in Environments :
          /\ directories = environment.directories
          /\ env_file_exists = environment.env_file_exists
          /\ env_file = environment.env_file
          /\ templates = environment.templates
    /\ links = {}
    /\ template_config = NoContext
    /\ rendered = <<>>
    /\ docker_compose_file = NoFile
    /\ init_result = NotCalled
    /\ enabled_status_by_service = <<>>
    /\ run_input = <<>>
    /\ run_written = FALSE
    /\ runs = 0
    /\ ResolverIdle
    /\ SequencerIdle
    /\ LoaderIdle

\* init_docker_compose(args, dev_projects): makes sure the network exists,
\* checks the directories and the environment file, builds the status map,
\* reconciles the environment file, links it into the dev projects, dumps the
\* shared document and renders the templates of the dev projects
InitDockerCompose(a, dev, t) ==
    /\ runs < MaxRuns
    /\ args' = a
    /\ dev_project_names' = dev
    /\ tag' = t
    /\ runs' = runs + 1
    /\ network_exists' = TRUE
    /\ IF ~check_project_directories(dev) \/ ~check_required_options
       THEN /\ init_result' = IF ~check_project_directories(dev)
                              THEN KnownException("_check_project_directories")
                              ELSE KnownException("_check_required_options")
            /\ UNCHANGED <<env_file, enabled_status_by_service, run_input, run_written, links,
                           docker_compose_data, template_config, rendered, docker_compose_file>>
       ELSE \E status \in {EnabledStatusByService(a)} :
            \E result \in {set_dynamic_options(env_file, status)},
               st \in {RenderProjects([file |-> [source |-> "generated", project |-> ""],
                                       rendered |-> <<>>, result |-> InitReturned],
                                      DevProjects(dev))} :
               /\ enabled_status_by_service' = status
               /\ run_input' = env_file
               /\ run_written' = result.written
               /\ env_file' = result.contents
               /\ links' = link_config(dev)
               /\ docker_compose_data' = generate_docker_compose(dev, t, status)
               /\ template_config' = TemplateConfig(dev, t, status)
               /\ rendered' = st.rendered
               /\ docker_compose_file' = st.file
               /\ init_result' = st.result
    /\ UNCHANGED <<config, resolverVars, loaderVars, directories, env_file_exists, templates,
                   pc, dc_args, calls, exit_code, wait_index,
                   open_ports, port_index, polls, observed, signals, interrupts>>

ComposerNext ==
    \E a \in SUBSET FlagAttrs, dev \in SUBSET DevelopableProjects, t \in Tags :
        InitDockerCompose(a, dev, t)

SpecComposer == ComposerInit /\ [][ComposerNext]_vars

-----------------------------------------------------------------------------
(* config.py: loading and validating config.yml, _get_config *)

\* what yaml.safe_load returns: None, a string, a list or a dict
YamlNull == [t |-> "null"]

YamlStr(str) == [t |-> "str", s |-> str]

YamlList(items) == [t |-> "list", items |-> items]

\* a dict as the list of its items; an item whose value is NoKey stands for
\* a key the file does not have and is left out
NoKey == [t |-> "nokey"]

Item(key, value) == [key |-> key, value |-> value]

YamlDict(items) == [t |-> "dict", items |-> SelectSeq(items, LAMBDA item : item.value.t # "nokey")]

\* not value
Not(value) ==
    \/ value.t = "null"
    \/ value.t = "str" /\ value.s = ""
    \/ value.t = "list" /\ value.items = <<>>
    \/ value.t = "dict" /\ value.items = <<>>

\* isinstance(value, dict)
IsDict(value) == value.t = "dict"

\* isinstance(value, list)
IsList(value) == value.t = "list"

\* key in value, for a dict
KeyIn(key, value) == \E i \in DOMAIN value.items : value.items[i].key = key

\* value.get(key), for a dict
Get(value, key) ==
    IF KeyIn(key, value)
    THEN value.items[CHOOSE i \in DOMAIN value.items : value.items[i].key = key].value
    ELSE YamlNull

\* not section or not section.get(key) or ...: calling get on a string or a
\* list raises AttributeError
CheckSection(section, keys) ==
    IF Not(section) THEN "KnownException"
    ELSE IF ~IsDict(section) THEN "AttributeError"
    ELSE IF \E i \in DOMAIN keys : Not(Get(section, keys[i])) THEN "KnownException"
    ELSE "ok"

\* the check of one service entry
CheckService(service_data) ==
    IF ~IsDict(service_data) \/ ~KeyIn("name", service_data) THEN "KnownException" ELSE "ok"

\* the check of one project entry and of its services
CheckProject(project_data) ==
    IF \/ Not(project_data)
       \/ ~IsDict(project_data)
       \/ ~KeyIn("directory", project_data)
       \/ ~KeyIn("repository", project_data)
       \/ ~KeyIn("services", project_data)
       \/ ~IsList(Get(project_data, "services"))
    THEN "KnownException"
    ELSE IF \E i \in DOMAIN Get(project_data, "services").items :
                CheckService(Get(project_data, "services").items[i]) # "ok"
    THEN "KnownException"
    ELSE "ok"

\* the check of the 'projects' section
CheckProjects(projects) ==
    IF Not(projects) \/ ~IsDict(projects) THEN "KnownException"
    ELSE IF \E i \in DOMAIN projects.items : CheckProject(projects.items[i].value) # "ok"
    THEN "KnownException"
    ELSE "ok"

\* _get_config: how it ends for a file: "ok" when it returns the
\* configuration, else the exception it raises
get_config(file) ==
    IF file.state = "absent" THEN "KnownException"
    ELSE IF file.state = "invalid" THEN "KnownException"
    ELSE IF Not(file.doc) THEN "KnownException"
    ELSE IF ~IsDict(file.doc) THEN "AttributeError"
    ELSE IF CheckSection(Get(file.doc, "prefixes"), <<"service", "core">>) # "ok"
    THEN CheckSection(Get(file.doc, "prefixes"), <<"service", "core">>)
    ELSE IF CheckSection(Get(file.doc, "docker-compose"), <<"network", "project", "registry">>) # "ok"
    THEN CheckSection(Get(file.doc, "docker-compose"), <<"network", "project", "registry">>)
    ELSE CheckProjects(Get(file.doc, "projects"))

\* 'prefixes' sections a file may have
PrefixesChoices ==
    { NoKey, YamlNull, YamlDict(<<>>), YamlStr("pydc_"), YamlList(<<YamlStr("pydc_")>>),
      YamlDict(<<Item("service", YamlStr("pydc_"))>>),
      YamlDict(<<Item("core", YamlStr("pydc_core_"))>>),
      YamlDict(<<Item("service", YamlStr("")), Item("core", YamlStr("pydc_core_"))>>),
      YamlDict(<<Item("service", YamlStr("pydc_")), Item("core", YamlStr("pydc_core_"))>>) }

\* 'docker-compose' sections a file may have
DockerComposeChoices ==
    { NoKey, YamlStr("project1"),
      YamlDict(<<Item("project", YamlStr("project1")), Item("registry", YamlStr("registry1"))>>),
      YamlDict(<<Item("network", YamlStr("project1")), Item("registry", YamlStr("registry1"))>>),
      YamlDict(<<Item("network", YamlStr("project1")), Item("project", YamlStr("project1"))>>),
      YamlDict(<<Item("network", YamlStr("project1")), Item("project", YamlStr("project1")),
                 Item("registry", YamlStr("registry1"))>>) }

\* 'services' values a project entry may have
ServicesChoices ==
    { NoKey, YamlNull, YamlDict(<<Item("name", YamlStr("service1"))>>),
      YamlList(<<>>),
      YamlList(<<YamlDict(<<Item("name", YamlStr("service1"))>>)>>),
      YamlList(<<YamlDict(<<Item("name", YamlStr("service1"))>>),
                 YamlDict(<<Item("image_path", YamlStr("/service2"))>>)>>),
      YamlList(<<YamlStr("service1")>>) }

\* project entries a file may have
ProjectChoices ==
    { YamlNull }
    \cup { YamlDict(<<Item("directory", directory), Item("repository", repository),
                      Item("services", services)>>) :
               directory \in {NoKey, YamlNull, YamlStr("project1")},
               repository \in {NoKey, YamlStr("repo1")},
               services \in ServicesChoices }

\* 'projects' sections a file may have
ProjectsChoices ==
    { NoKey, YamlDict(<<>>), YamlList(<<YamlStr("project1")>>) }
    \cup { YamlDict(<<Item("project1", project)>>) : project \in ProjectChoices }
    \cup { YamlDict(<<Item("project1",
                           YamlDict(<<Item("directory", YamlStr("project1")),
                                      Item("repository", YamlStr("repo1")),
                                      Item("services", YamlList(<<>>))>>)),
                      Item("project2", project)>>) : project \in ProjectChoices }

\* the states config.yml may be in
ConfigFiles ==
    { [state |-> "absent"], [state |-> "invalid"] }
    \cup { [state |-> "parsed", doc |-> doc] :
               doc \in {YamlNull, YamlStr("projects"), YamlList(<<YamlStr("projects")>>)} }
    \cup { [state |-> "parsed",
            doc |-> YamlDict(<<Item("prefixes", prefixes), Item("docker-compose", dc),
                               Item("projects", projects)>>)] :
               prefixes \in PrefixesChoices, dc \in DockerComposeChoices,
               projects \in ProjectsChoices }

LoaderInit ==
    /\ config = Config(<<>>)
    /\ args = {}
    /\ config_file \in ConfigFiles
    /\ load_result = "not loaded"
    /\ ResolverIdle
    /\ ReconcilerIdle
    /\ SequencerIdle
    /\ ComposerIdle

\* the first call of _get_config (its result is cached)
LoadConfig ==
    /\ load_result = "not loaded"
    /\ load_result' = get_config(config_file)
    /\ UNCHANGED <<config, args, resolverVars, reconcilerVars, sequencerVars, composerVars,
                   config_file>>

LoaderNext == LoadConfig

SpecLoader == LoaderInit /\ [][LoaderNext]_vars

-----------------------------------------------------------------------------
(* Properties of the service resolver *)

\* 'enable' / 'disable' is set: present and not falsy
FlagIsSet(v) ==
    \/ v.t = "bool" /\ v.b
    \/ v.t = "int" /\ v.n # 0
    \/ v.t = "str" /\ v.s # ""

\* the flag a set 'enable' / 'disable' value refers to: named after the
\* token when the value is a string, after the service's name otherwise
FlagOf(service, v, prefix) ==
    IF v.t = "str" THEN <<prefix, v.s>> ELSE <<prefix, service.data.name>>

EnableFlagPassed(service) == FlagOf(service, service.data.enable, "enable") \in args

DisableFlagPassed(service) == FlagOf(service, service.data.disable, "disable") \in args

\* C5 as stated: for every service with 'enable' set, is_enabled returns true
\* iff its enable flag (named after the token if a string, else after the
\* service) is passed, and services that refer to the same enable flag
\* resolve to the same status
C5_Original ==
    /\ (resolved.called /\ FlagIsSet(resolved.service.data.enable))
          => (resolved.result = EnableFlagPassed(resolved.service))
    /\ \A s1, s2 \in Services :
          (/\ FlagIsSet(s1.data.enable) /\ FlagIsSet(s2.data.enable)
           /\ FlagOf(s1, s1.data.enable, "enable") = FlagOf(s2, s2.data.enable, "enable"))
          => (is_enabled(s1, args) = is_enabled(s2, args))

\* C5 (amended): for every service with 'enable' set and 'disable' not set,
\* is_enabled returns true iff its enable flag (named after the token if
\* 'enable' is a string, else after the service's own name) is passed; two
\* such services that refer to the same enable flag resolve to the same status
C5_EnableOnly ==
    /\ (/\ resolved.called
        /\ FlagIsSet(resolved.service.data.enable)
        /\ ~FlagIsSet(resolved.service.data.disable))
          => (resolved.result = EnableFlagPassed(resolved.service))
    /\ \A s1, s2 \in Services :
          (/\ FlagIsSet(s1.data.enable) /\ FlagIsSet(s2.data.enable)
           /\ ~FlagIsSet(s1.data.disable) /\ ~FlagIsSet(s2.data.disable)
           /\ FlagOf(s1, s1.data.enable, "enable") = FlagOf(s2, s2.data.enable, "enable"))
          => (is_enabled(s1, args) = is_enabled(s2, args))

\* a service enabled through a string token that is another service's name
C5_Witness ==
    /\ resolved.called
    /\ resolved.service.data.enable.t = "str"
    /\ ~FlagIsSet(resolved.service.data.disable)
    /\ resolved.result
    /\ \E s \in Services :
          /\ s.data.name = resolved.service.data.enable.s
          /\ s.project_name # resolved.service.project_name
          /\ is_enabled(s, args)

\* C6: for every service with 'disable' set and 'enable' not set, is_enabled
\* returns true iff the corresponding disable flag is not passed
C6_DisableOnly ==
    (/\ resolved.called
     /\ FlagIsSet(resolved.service.data.disable)
     /\ ~FlagIsSet(resolved.service.data.enable))
        => (resolved.result = ~DisableFlagPassed(resolved.service))

\* a service disabled through a string token
C6_Witness ==
    /\ resolved.called
    /\ resolved.service.data.disable.t = "str"
    /\ ~FlagIsSet(resolved.service.data.enable)
    /\ DisableFlagPassed(resolved.service)
    /\ ~resolved.result

\* C7: a service with neither 'enable' nor 'disable' set is enabled for
\* every assignment of flags
C7_NeitherAlwaysEnabled ==
    (/\ resolved.called
     /\ ~FlagIsSet(resolved.service.data.enable)
     /\ ~FlagIsSet(resolved.service.data.disable))
        => resolved.result

\* an unflagged service with falsy 'enable' / 'disable' values, resolved
\* while every flag is passed
C7_Witness ==
    /\ resolved.called
    /\ resolved.service.data.enable.t = "bool"
    /\ resolved.service.data.disable.t = "str"
    /\ ~FlagIsSet(resolved.service.data.enable)
    /\ ~FlagIsSet(resolved.service.data.disable)
    /\ args = FlagAttrs
    /\ resolved.result

\* C20: a service with both 'enable' and 'disable' set is enabled iff its
\* enable flag is passed or its disable flag is not passed; with both flags
\* passed it is enabled
C20_BothIsOr ==
    (/\ resolved.called
     /\ FlagIsSet(resolved.service.data.enable)
     /\ FlagIsSet(resolved.service.data.disable))
        => /\ resolved.result = (EnableFlagPassed(resolved.service)
                                  \/ ~DisableFlagPassed(resolved.service))
           /\ (EnableFlagPassed(resolved.service) /\ DisableFlagPassed(resolved.service))
                 => resolved.result

\* a service with both keys resolved while both of its flags are passed
C20_Witness ==
    /\ resolved.called
    /\ FlagIsSet(resolved.service.data.enable)
    /\ FlagIsSet(resolved.service.data.disable)
    /\ EnableFlagPassed(resolved.service)
    /\ DisableFlagPassed(resolved.service)
    /\ resolved.result

-----------------------------------------------------------------------------
(* Properties of the reconciler *)

RECURSIVE OptionsOf(_, _)
OptionsOf(service, i) ==
    IF i > Len(service.data.dynamic_options) THEN <<>>
    ELSE <<[option |-> service.data.dynamic_options[i].option,
            owner |-> service,
            values |-> service.data.dynamic_options[i].values]>>
         \o OptionsOf(service, i + 1)

RECURSIVE OptionsOfAll(_)
OptionsOfAll(services) ==
    IF services = <<>> THEN <<>>
    ELSE OptionsOf(Head(services), 1) \o OptionsOfAll(Tail(services))

\* the dynamic options the configuration declares, in declaration order
DeclaredOptions == OptionsOfAll(ServiceFindAll)

DeclaredOptionSet == {DeclaredOptions[i] : i \in DOMAIN DeclaredOptions}

\* the owner of an option is enabled under the status map of the last run
OwnerEnabled(o) ==
    IF ServiceKey(o.owner) \in DOMAIN enabled_status_by_service
    THEN enabled_status_by_service[ServiceKey(o.owner)]
    ELSE TRUE

ValueOr(values, key) == IF key \in DOMAIN values THEN values[key] ELSE <<>>

\* the target value of an option under the status map of the last run; the
\* empty string when it is empty or absent
Target(o) ==
    IF OwnerEnabled(o) THEN ValueOr(o.values, "enabled") ELSE ValueOr(o.values, "disabled")

\* TOKEN=value
Assignment(token, value) == token \o <<"=">> \o value

\* the line assigns the token: it starts with TOKEN=
Assigns(line, token) ==
    /\ Len(line) > Len(token)
    /\ SubSeq(line, 1, Len(token) + 1) = token \o <<"=">>

FileLines == splitlines(env_file)

InputLines == splitlines(run_input)

\* C1 as stated: a second run in a row with the same enabled-status map
\* leaves the file contents as the first run left them
C1_Idempotent ==
    [][(/\ runs >= 1
        /\ runs' = runs + 1
        /\ enabled_status_by_service' = enabled_status_by_service)
          => env_file' = env_file]_vars

\* C2 as stated: after a run every option with a non-empty target value has
\* the line TOKEN=value in the file, and no line assigns it another value
C2_LinesMatchTargets ==
    runs >= 1 =>
        \A o \in DeclaredOptionSet :
            /\ Target(o) # <<>> =>
                  \E i \in DOMAIN FileLines : FileLines[i] = Assignment(o.option, Target(o))
            /\ \A i \in DOMAIN FileLines :
                  Assigns(FileLines[i], o.option)
                      => FileLines[i] = Assignment(o.option, Target(o))

\* the lines that assign no declared option token
NonDynamic(lines) ==
    SelectSeq(lines, LAMBDA line : \A o \in DeclaredOptionSet : ~Assigns(line, o.option))

\* a is b with some elements left out
RECURSIVE IsSubsequence(_, _)
IsSubsequence(a, b) ==
    IF a = <<>> THEN TRUE
    ELSE IF b = <<>> THEN FALSE
    ELSE IF Head(a) = Head(b) THEN IsSubsequence(Tail(a), Tail(b))
    ELSE IsSubsequence(a, Tail(b))

\* C8 as stated: when the file is rewritten, every line that assigns no
\* dynamic-option token is in the output verbatim, in the input's order
C8_NonDynamicLinesPreserved ==
    (runs >= 1 /\ run_written) => IsSubsequence(NonDynamic(InputLines), FileLines)

\* C9: an option whose target value is empty or absent has no line in the
\* file after a run: existing lines are removed and none is appended
C9_EmptyTargetRemoved ==
    runs >= 1 =>
        \A o \in DeclaredOptionSet :
            Target(o) = <<>> => \A i \in DOMAIN FileLines : ~Assigns(FileLines[i], o.option)

\* a run that removed the line of an option whose target value is empty,
\* and one that removed the line of an option whose target value is absent
C9_Witness ==
    /\ runs >= 1
    /\ run_written
    /\ \E o \in DeclaredOptionSet :
          /\ Target(o) = <<>>
          /\ "disabled" \in DOMAIN o.values
          /\ \E i \in DOMAIN InputLines : Assigns(InputLines[i], o.option)
          /\ \A i \in DOMAIN FileLines : ~Assigns(FileLines[i], o.option)
          /\ Len(FileLines) > 0

\* no declared option token occurs anywhere in the text
NoTokenOccurs(text) == \A o \in DeclaredOptionSet : ~Contains(text, o.option)

\* one TOKEN=value line for every pair with a non-empty value, in order
RECURSIVE ExpectedLines(_)
ExpectedLines(pairs) ==
    IF pairs = <<>> THEN <<>>
    ELSE (IF Head(pairs).value # <<>>
          THEN <<Assignment(Head(pairs).option, Head(pairs).value)>>
          ELSE <<>>)
         \o ExpectedLines(Tail(pairs))

\* with no flags: the 'disabled' value for an option of an enable-gated
\* service, the 'enabled' value for an option of a disable-gated service
NoFlagsValue(o) ==
    IF FlagIsSet(o.owner.data.enable) THEN ValueOr(o.values, "disabled")
    ELSE ValueOr(o.values, "enabled")

\* C10: from a file in which no option token occurs, a run yields the
\* original lines followed by one TOKEN=value line per declared option with
\* a non-empty target value, in declaration order; with no flags the values
\* are 'disabled' for enable-gated and 'enabled' for disable-gated services
C10_AppendedInDeclarationOrder ==
    (runs >= 1 /\ NoTokenOccurs(run_input)) =>
        /\ FileLines = InputLines \o ExpectedLines([i \in DOMAIN DeclaredOptions |->
                  [option |-> DeclaredOptions[i].option, value |-> Target(DeclaredOptions[i])]])
        /\ args = {} =>
              FileLines = InputLines \o ExpectedLines([i \in DOMAIN DeclaredOptions |->
                  [option |-> DeclaredOptions[i].option,
                   value |-> NoFlagsValue(DeclaredOptions[i])]])

\* a run without flags on a file of plain lines that appended two options
C10_Witness ==
    /\ runs >= 1
    /\ NoTokenOccurs(run_input)
    /\ args = {}
    /\ Len(InputLines) = MaxLines
    /\ Len(FileLines) > Len(InputLines) + 1
    /\ FileLines[Len(FileLines)] = Assignment(TokC, ValE)

-----------------------------------------------------------------------------
(* Properties of the start-up sequencer *)

\* the names under which the composition tool knows the services of the run
ComposedNames ==
    {SharedDocServices[i] : i \in DOMAIN SharedDocServices}
    \cup {AllDevDocServices(get_dev_projects)[i] : i \in DOMAIN AllDevDocServices(get_dev_projects)}

\* the container names of the core services of the configuration
CoreNames == {container_name(s) : s \in {t \in Services : t.data.core}}

\* the service names an invocation passes to the composition tool
ServicesNamed(call) ==
    {call.commands[i] : i \in DOMAIN call.commands} \cap (ComposedNames \cup CoreNames)

\* the services an invocation can start: the named ones, and every service
\* of the documents when none is named
CanStart(call) ==
    IF ServicesNamed(call) = {} THEN ComposedNames ELSE ServicesNamed(call)

\* C3 as stated: in a staged bring-up no invocation that names or can start
\* a non-core service is issued before the core invocation returned 0
C3_CoreFirst ==
    IsStagedUp =>
        \A i \in DOMAIN calls :
            (CanStart(calls[i]) \ CoreNames # {}) =>
                \E j \in 1..(i - 1) :
                    /\ calls[j].stage = "core"
                    /\ calls[j].returned
                    /\ calls[j].code = 0

\* the invocations that exited nonzero
Failed == {i \in DOMAIN calls : calls[i].returned /\ calls[i].code # 0}

\* C4: the result is the exit code of the first invocation that exits
\* nonzero, after which nothing more is invoked or polled; when no invocation
\* fails the result is the exit code of the last invocation
C4_FirstFailureIsResult ==
    /\ [](Failed # {} =>
            /\ pc = "done"
            /\ Failed = {Len(calls)}
            /\ exit_code = calls[Len(calls)].code)
    /\ []((pc = "done" /\ Failed = {}) =>
            /\ calls[Len(calls)].stage = "final"
            /\ calls[Len(calls)].returned
            /\ exit_code = calls[Len(calls)].code)
    /\ [][Failed # {} => (calls' = calls /\ polls' = polls /\ pc' = pc)]_vars

\* a staged start-up with a developed project whose base invocation failed
\* after the core services were polled
C4_Witness ==
    /\ pc = "done"
    /\ Len(calls) > 1
    /\ calls[1].stage = "core"
    /\ calls[1].code = 0
    /\ calls[Len(calls)].stage = "base"
    /\ calls[Len(calls)].code # 0
    /\ exit_code = calls[Len(calls)].code
    /\ polls > 0

\* the stages in which the sequencer waits for a composition-tool process
ChildStages == {"core_call", "base_call", "final_call"}

\* the interrupts received while waiting for the invocation with index i
InterruptsDuring(i) == {k \in DOMAIN interrupts : interrupts[k].call = i}

\* C13 as stated: in the core, base and final stage the first interrupt
\* received while waiting for the child is passed on to the child as SIGINT
\* and the sequencer goes on waiting for the child; the exit code the child
\* then returns is used; the child is never abandoned on the first interrupt
C13_InterruptForwarded ==
    /\ [][(/\ pc \in ChildStages
           /\ Len(interrupts') = Len(interrupts) + 1
           /\ InterruptsDuring(Len(calls)) = {})
             => /\ signals' = Append(signals, [call |-> Len(calls), signal |-> "SIGINT"])
                /\ pc' = pc
                /\ calls' = calls]_vars
    /\ []((pc = "interrupted" /\ calls # <<>> /\ ~calls[Len(calls)].returned)
              => Cardinality(InterruptsDuring(Len(calls))) >= 2)
    /\ []((pc = "done" /\ InterruptsDuring(Len(calls)) # {})
              => exit_code = calls[Len(calls)].code)

\* the pass-through arguments hold 'up' and otherwise only option flags
OnlyUpAndFlags ==
    /\ \E i \in DOMAIN dc_args : dc_args[i] = "up"
    /\ \A i \in DOMAIN dc_args : dc_args[i] # "up" => StartsWithDash(dc_args[i])

\* the last n elements of a sequence
LastN(seq, n) == SubSeq(seq, Len(seq) - n + 1, Len(seq))

\* C15: the staged start-up is entered iff the arguments hold 'up' and
\* otherwise only option flags; in every other case exactly one invocation is
\* issued, with the arguments unchanged, and there is no core-stage
\* invocation and no readiness polling
C15_StagedDetection ==
    pc # "start" =>
        /\ (calls[1].stage = "core") <=> OnlyUpAndFlags
        /\ ~OnlyUpAndFlags =>
              /\ Len(calls) = 1
              /\ calls[1].stage = "final"
              /\ LastN(calls[1].commands, Len(dc_args)) = dc_args
              /\ calls[1].commands =
                    <<"docker-compose", "-p", config.docker_compose.project,
                      "-f", "docker-compose.yml">>
                    \o DevFileArgs(get_dev_projects) \o dc_args
              /\ polls = 0
              /\ observed = <<>>

\* 'up' with a service name: one direct invocation that has returned
C15_Witness ==
    /\ pc = "done"
    /\ dc_args = <<"up", "mynamespace_service1">>
    /\ Len(calls) = 1
    /\ calls[1].returned
    /\ polls = 0

\* the container names of the core services that are enabled
EnabledCoreNames == {container_name(s) : s \in {t \in Services : t.data.core /\ is_enabled(t, args)}}

\* C16 as stated: the core-stage invocation is detached and the services it
\* asks the composition tool to start are exactly the enabled core services,
\* also when no core service is enabled
C16_CoreScope ==
    \A i \in DOMAIN calls :
        calls[i].stage = "core" =>
            /\ \E k \in DOMAIN calls[i].commands : calls[i].commands[k] \in {"--detach", "-d"}
            /\ CanStart(calls[i]) = EnabledCoreNames

\* the sequencer has left the core-waiting stage of a staged start-up and
\* issued an invocation for the dependent services
DependentsStarted == calls # <<>> /\ calls[1].stage = "core" /\ Len(calls) > 1

\* the polls in which a connection to the host port of the service succeeded
Connected(name, host_port) ==
    {c \in DOMAIN observed :
        /\ observed[c].service = name
        /\ observed[c].kind = "connect"
        /\ observed[c].host_port = host_port
        /\ observed[c].ok}

\* the rest of a service's readiness after listing l returned its ports:
\* every listed host port accepted a connection, and every configured health
\* check succeeded on the host port listed for its container port
ReadyAfter(service, l) ==
    LET name == container_name(service)
        ports == observed[l].ports
    IN /\ \A p \in DOMAIN ports :
             \E c \in Connected(name, ports[p].host_port) : c > l
       /\ \A w \in DOMAIN service.data.wait_for_ports :
             \E p \in DOMAIN ports :
                /\ ports[p].container_port = service.data.wait_for_ports[w].port
                /\ \E h \in DOMAIN observed :
                      /\ h > l
                      /\ observed[h].service = name
                      /\ observed[h].kind = "health"
                      /\ observed[h].path = service.data.wait_for_ports[w].path
                      /\ observed[h].host_port = ports[p].host_port
                      /\ observed[h].ok

\* the service was observed ready
ObservedReady(service) ==
    \E l \in DOMAIN observed :
        /\ observed[l].service = container_name(service)
        /\ observed[l].kind = "list"
        /\ observed[l].ports # <<>>
        /\ ReadyAfter(service, l)

\* C17: the sequencer leaves the core-waiting stage only after every enabled
\* core service listed published ports, every listed host port accepted a
\* connection and every configured health check succeeded on the host port
\* published for its container port; a health check of a service is polled
\* only after all of its listed ports accepted a connection
C17_ReadyBeforeDependents ==
    /\ DependentsStarted =>
          \A s \in Services : (s.data.core /\ is_enabled(s, args)) => ObservedReady(s)
    /\ \A h \in DOMAIN observed :
          observed[h].kind = "health" =>
              \A p \in DOMAIN observed[h].ports :
                  \E c \in Connected(observed[h].service, observed[h].ports[p].host_port) : c < h

\* dependents started after a core service with a health check and one
\* without became ready, with a health check without success on the way
C17_Witness ==
    /\ DependentsStarted
    /\ \E h \in DOMAIN observed : observed[h].kind = "health" /\ observed[h].ok
    /\ \E f \in DOMAIN observed : observed[f].kind = "health" /\ ~observed[f].ok
    /\ \E s \in Services : s.data.core /\ s.data.wait_for_ports = <<>> /\ is_enabled(s, args)

\* the positions in which the sequencer polls for readiness
WaitStages == {"wait_list", "wait_port", "wait_health"}

\* the polls that did not succeed: an empty listing, a refused connection,
\* a health check without success
FailedPolls == {k \in DOMAIN observed : ~observed[k].ok}

\* C18: a poll that does not succeed leaves the sequencer where it is,
\* however many polls were made before: it starts no dependent service and
\* has no result; the sequencer leaves a polling position only after a
\* successful poll (or when it is interrupted)
C18_NoPollingTimeout ==
    /\ [][(Len(observed') = Len(observed) + 1 /\ ~observed'[Len(observed')].ok)
             => /\ pc' = pc
                /\ calls' = calls
                /\ exit_code' = exit_code
                /\ wait_index' = wait_index
                /\ port_index' = port_index]_vars
    /\ [][(pc \in WaitStages /\ pc' \notin WaitStages)
             => \/ pc' = "interrupted"
                \/ /\ Len(observed') = Len(observed) + 1
                   /\ observed'[Len(observed')].ok]_vars
    /\ [](pc \in WaitStages => (exit_code = 0 /\ Len(calls) = 1))

\* as many polls as the model allows to fail, the last one a health check
\* without success, and the sequencer is still polling
C18_Witness ==
    /\ pc = "wait_health"
    /\ polls = MaxPolls
    /\ observed[Len(observed)].kind = "health"
    /\ ~observed[Len(observed)].ok
    /\ Len(calls) = 1
    /\ exit_code = 0

\* what an invocation's command line holds after 'docker-compose -p <project>
\* -f docker-compose.yml', the -f pairs of the developed projects and the
\* pass-through arguments
ExtensionOf(call) ==
    {call.commands[k] : k \in (5 + 2 * Len(get_dev_projects) + Len(dc_args) + 1)..Len(call.commands)}

\* the services of the shared document
SharedNames == {SharedDocServices[i] : i \in DOMAIN SharedDocServices}

\* the services the developed projects' own documents declare
DevNames ==
    {AllDevDocServices(get_dev_projects)[i] : i \in DOMAIN AllDevDocServices(get_dev_projects)}

\* --detach was added to the command line, given that the arguments had none
DetachAdded(call) ==
    IF \E i \in DOMAIN dc_args : dc_args[i] \in {"--detach", "-d"}
    THEN "--detach" \notin ExtensionOf(call)
    ELSE "--detach" \in ExtensionOf(call)

\* C19: after core readiness, with a dev project selected a detached base
\* invocation naming exactly the shared document's services minus the core
\* service names comes first, and the final invocation, not forced detached,
\* is extended with exactly the services of the dev projects' own documents;
\* with no dev project there is no base invocation and the final invocation
\* is extended with exactly the shared document's services minus the core
\* service names
C19_DependentStages ==
    DependentsStarted =>
        IF dev_project_names # {}
        THEN /\ calls[2].stage = "base"
             /\ DetachAdded(calls[2])
             /\ ExtensionOf(calls[2]) \ {"--detach"} = SharedNames \ EnabledCoreNames
             /\ Len(calls) <= 3
             /\ Len(calls) = 3 =>
                   /\ calls[2].returned
                   /\ calls[3].stage = "final"
                   /\ ExtensionOf(calls[3]) = DevNames
        ELSE /\ Len(calls) = 2
             /\ calls[2].stage = "final"
             /\ ExtensionOf(calls[2]) = SharedNames \ EnabledCoreNames

\* a final invocation after a base invocation that named a shared service,
\* while a core service was enabled and the arguments asked for no detaching
C19_Witness ==
    /\ DependentsStarted
    /\ dc_args = <<"up", "--force-recreate">>
    /\ Len(calls) = 3
    /\ calls[3].returned
    /\ EnabledCoreNames # {}
    /\ SharedNames \ EnabledCoreNames # {}
    /\ "mynamespace_service1" \in ExtensionOf(calls[2])
    /\ DevNames # {}

-----------------------------------------------------------------------------
(* Properties of the topology composer *)

\* the service of the configuration with the given identity
ServiceOf(key) == CHOOSE s \in Services : ServiceKey(s) = key

DocumentEntries == {docker_compose_data.services[i] : i \in DOMAIN docker_compose_data.services}

\* the last call of init_docker_compose got to _generate_docker_compose, so
\* that the document is the one generated for its arguments
Composed ==
    /\ init_result.called
    /\ init_result.raised_by \in {"", "_render_docker_compose_file"}

EntryValue(e, key, default) ==
    IF HasKey(ServiceOf(e.source).data.properties, key)
    THEN ValueOf(ServiceOf(e.source).data.properties, key)
    ELSE default

\* C12: an entry has the default environment-file reference only when the
\* service's own properties have no 'env_file', and the default network only
\* when they have no 'networks'; a value the service gives for either key is
\* carried into the entry unchanged, and each key is defaulted on its own
C12_DefaultsOnlyWhenOmitted ==
    \A e \in DocumentEntries :
        /\ HasKey(e.data, "env_file")
        /\ ValueOf(e.data, "env_file") = EntryValue(e, "env_file", <<"./docker-compose.env">>)
        /\ HasKey(e.data, "networks")
        /\ ValueOf(e.data, "networks") = EntryValue(e, "networks", <<config.docker_compose.network>>)

\* a document with an entry that has its own 'env_file' (an empty list) and
\* the default network, an entry with its own 'networks' and the default
\* environment file, and an entry with both of its own
C12_Witness ==
    /\ Composed
    /\ \E e \in DocumentEntries :
          /\ e.source = <<"alpha", "cache">>
          /\ ValueOf(e.data, "env_file") = <<>>
          /\ ValueOf(e.data, "networks") = <<"project1">>
    /\ \E e \in DocumentEntries :
          /\ e.source = <<"beta", "api">>
          /\ ValueOf(e.data, "env_file") = <<"./docker-compose.env">>
          /\ ValueOf(e.data, "networks") = <<"backend">>
    /\ \E e \in DocumentEntries :
          /\ e.source = <<"alpha", "db">>
          /\ ValueOf(e.data, "env_file") = <<"./db.env">>
          /\ ValueOf(e.data, "networks") = <<"backend">>

-----------------------------------------------------------------------------
(* Properties of the configuration loader *)

\* the value at section.key of the document, if it has one
ValueAt(doc, section, key) ==
    IF IsDict(doc) /\ KeyIn(section, doc) /\ IsDict(Get(doc, section))
    THEN Get(Get(doc, section), key)
    ELSE YamlNull

\* section.key is missing: there is no such value, or it is empty
Missing(doc, section, key) == Not(ValueAt(doc, section, key))

\* the project entries of the document
ProjectEntries(doc) ==
    IF IsDict(doc) /\ KeyIn("projects", doc) /\ IsDict(Get(doc, "projects"))
    THEN {Get(doc, "projects").items[i].value : i \in DOMAIN Get(doc, "projects").items}
    ELSE {}

\* the project entry has no 'services' list
LacksServicesList(project) ==
    ~IsDict(project) \/ ~KeyIn("services", project) \/ ~IsList(Get(project, "services"))

\* the project entry has no directory, no repository or no services list
ProjectIncomplete(project) ==
    \/ ~IsDict(project)
    \/ ~KeyIn("directory", project)
    \/ ~KeyIn("repository", project)
    \/ LacksServicesList(project)

\* a service entry of the project has no name
ServiceUnnamed(project) ==
    /\ ~LacksServicesList(project)
    /\ \E i \in DOMAIN Get(project, "services").items :
          LET service == Get(project, "services").items[i]
          IN ~IsDict(service) \/ ~KeyIn("name", service)

\* the cases in which loading is to fail with KnownException
MustFail(file) ==
    \/ file.state \in {"absent", "invalid"}
    \/ /\ file.state = "parsed"
       /\ \/ Not(file.doc)
          \/ Missing(file.doc, "prefixes", "service")
          \/ Missing(file.doc, "prefixes", "core")
          \/ Missing(file.doc, "docker-compose", "network")
          \/ Missing(file.doc, "docker-compose", "project")
          \/ Missing(file.doc, "docker-compose", "registry")
          \/ ProjectEntries(file.doc) = {}
          \/ \E project \in ProjectEntries(file.doc) :
                ProjectIncomplete(project) \/ ServiceUnnamed(project)

\* C14 as stated: loading fails with KnownException exactly when the file is
\* absent, unparseable or empty, prefixes.service or prefixes.core is
\* missing, docker-compose network, project or registry is missing, the
\* projects mapping is missing or empty, a project entry lacks directory,
\* repository or a services list, or a service entry lacks a name; in every
\* other case the configuration is accepted
C14_FailsExactlyWhenInvalid ==
    load_result # "not loaded" =>
        /\ (load_result = "KnownException") <=> MustFail(config_file)
        /\ ~MustFail(config_file) => load_result = "ok"

-----------------------------------------------------------------------------
(* Properties of the reconciler: line matching, positions and the write *)

\* a token occurs in the line, but the line assigns no token
MerelyContains(line) ==
    /\ \E o \in DeclaredOptionSet : Contains(line, o.option)
    /\ \A o \in DeclaredOptionSet : ~Assigns(line, o.option)

\* some line of the input of the last run assigns the option
AssignedInInput(o) == \E i \in DOMAIN InputLines : Assigns(InputLines[i], o.option)

\* C21 as stated: a line belongs to an option only when it starts with
\* TOKEN=; a line in which a token merely occurs is passed through unchanged,
\* and it does not mark the token as seen: an option that no line assigns is
\* appended when its target value is not empty
C21_PrefixMatching ==
    runs >= 1 =>
        /\ IsSubsequence(SelectSeq(InputLines, MerelyContains), FileLines)
        /\ \A o \in DeclaredOptionSet :
              (~AssignedInInput(o) /\ Target(o) # <<>>) =>
                  /\ FileLines # <<>>
                  /\ \E k \in DOMAIN FileLines :
                        /\ FileLines[k] = Assignment(o.option, Target(o))
                        /\ \A j \in k..Len(FileLines) :
                              \E p \in DeclaredOptionSet : Assigns(FileLines[j], p.option)

\* the option a line assigns
OptionAssigned(line) == CHOOSE o \in DeclaredOptionSet : Assigns(line, o.option)

\* no declared option token occurs in the line
Plain(line) == \A o \in DeclaredOptionSet : ~Contains(line, o.option)

\* the non-empty lines in which no token occurs, and the lines of options
\* with a non-empty target value, each of these as TOKEN=value, in the order
\* of the given lines
RECURSIVE LinesInPlace(_)
LinesInPlace(lines) ==
    IF lines = <<>> THEN <<>>
    ELSE LET line == Head(lines)
         IN (IF Plain(line) /\ line # <<>> THEN <<line>>
             ELSE IF (\E o \in DeclaredOptionSet : Assigns(line, o.option))
                     /\ Target(OptionAssigned(line)) # <<>>
                  THEN <<Assignment(OptionAssigned(line).option, Target(OptionAssigned(line)))>>
                  ELSE <<>>)
            \o LinesInPlace(Tail(lines))

\* C22 as stated: after a run, the line of an option with a non-empty target
\* value is TOKEN=value at the position the line had among the other lines,
\* whether it was replaced or already had that value, and whatever happened
\* to other lines in the same run
C22_LineKeptInPlace ==
    runs >= 1 => IsSubsequence(LinesInPlace(InputLines), FileLines)

\* a line of the input of the last run has to be replaced or removed, or an
\* option has to be appended
ChangeNeeded ==
    \/ \E i \in DOMAIN InputLines : \E o \in DeclaredOptionSet :
          /\ Assigns(InputLines[i], o.option)
          /\ Target(o) = <<>> \/ InputLines[i] # Assignment(o.option, Target(o))
    \/ \E o \in DeclaredOptionSet : Target(o) # <<>> /\ ~AssignedInInput(o)

\* C23 as stated: a run writes the file iff a line is replaced, removed or
\* appended; when every line of an option already has its target value and
\* no option is to be appended the file is not written and keeps its
\* contents, including a line break at the end
C23_WrittenIffChanged ==
    runs >= 1 =>
        /\ run_written <=> ChangeNeeded
        /\ ~run_written => env_file = run_input

-----------------------------------------------------------------------------
(* Properties of init_docker_compose *)

\* a directory of a selected dev project is missing, the environment file
\* does not exist, or a required option does not occur in its contents
MustNotCompose(dev) ==
    \/ \E name \in dev : name \notin directories
    \/ ~env_file_exists
    \/ \E i \in DOMAIN config.required_options :
          ~Contains(env_file, config.required_options[i])

\* C24: when a selected dev project's directory is missing, the environment
\* file does not exist or a required option does not occur in its contents,
\* init_docker_compose ends in KnownException before composition begins: the
\* environment file is not rewritten, no link is created and the shared
\* document is not written
C24_FailsBeforeComposition ==
    [][(runs' = runs + 1 /\ MustNotCompose(dev_project_names')) =>
          /\ init_result'.exception = "KnownException"
          /\ init_result'.raised_by \in {"_check_project_directories", "_check_required_options"}
          /\ env_file' = env_file
          /\ links' = links
          /\ docker_compose_data' = docker_compose_data
          /\ docker_compose_file' = docker_compose_file
          /\ rendered' = rendered]_vars

\* a call for a dev project without a directory, after a call that linked
\* the environment file into another project and generated the document:
\* both are as that call left them
C24_Witness ==
    /\ init_result = KnownException("_check_project_directories")
    /\ "alpha" \in dev_project_names
    /\ "alpha" \notin directories
    /\ links = {"beta"}
    /\ docker_compose_file.source = "generated"
    /\ docker_compose_data.services # <<>>
    /\ run_written

-----------------------------------------------------------------------------
(* Properties of the shared document and of the status map *)

\* the document has an entry under the service's container name
HasEntry(service) == \E e \in DocumentEntries : e.name = container_name(service)

\* C25 as stated: a service of a project that is not developed has an entry
\* under its container name in the shared document iff its resolved enabled
\* status (Service.is_enabled for the arguments) is true
C25_EnabledServicesCovered ==
    Composed =>
        \A service \in Services :
            service.project_name \notin dev_project_names =>
                (HasEntry(service) <=> is_enabled(service, args))

\* C26 as stated: the context a dev project's template is rendered with has
\* an enabled-status map with an entry for every service of the
\* configuration, keyed by service name, whose value is the service's
\* resolved enabled status
C26_StatusMapCoversEveryService ==
    (Composed /\ rendered # <<>>) =>
        \A service \in Services :
            /\ service.data.name \in DOMAIN template_config.enabled_services
            /\ template_config.enabled_services[service.data.name] = is_enabled(service, args)

\* C27 as stated: the status init_docker_compose records for a service
\* equals Service.is_enabled for the same arguments, and so every service
\* the core stage names (an enabled core service) whose project is not
\* developed has an entry in the shared document
C27_StatusMapIsResolver ==
    Composed =>
        /\ \A service \in Services :
              ServiceKey(service) \in DOMAIN enabled_status_by_service =>
                  enabled_status_by_service[ServiceKey(service)] = is_enabled(service, args)
        /\ \A service \in Services :
              (/\ service.data.core
               /\ is_enabled(service, args)
               /\ service.project_name \notin dev_project_names) => HasEntry(service)

-----------------------------------------------------------------------------
(* The flags the parser registers and the flags the resolver reads *)

\* the attribute cli._parse_args writes for --enable-<name> / --disable-<name>
ParserDest(service, prefix) == <<prefix, service.data.name>>

\* C28 as stated: for a service with 'enable' set, passing the flag the
\* parser registers for it, --enable-<service name>, makes is_enabled return
\* true; for a service with 'disable' set, passing --disable-<service name>
\* (and not its enable flag, if it has one) makes is_enabled return false
C28_ParserFlagIsResolverFlag ==
    resolved.called =>
        LET service == resolved.service
        IN /\ (FlagIsSet(service.data.enable) /\ ParserDest(service, "enable") \in args)
                  => resolved.result
           /\ (/\ FlagIsSet(service.data.disable)
               /\ ParserDest(service, "disable") \in args
               /\ ParserDest(service, "enable") \notin args
               /\ ~EnableFlagPassed(service))
                  => ~resolved.result

\* the enabled services of the projects that are not developed
IncludedServices ==
    {service \in Services :
        service.project_name \notin dev_project_names /\ is_enabled(service, args)}

\* C29 as stated: distinct included services have distinct entries, so the
\* 'services' section has as many entries as there are enabled services of
\* projects that are not developed, also when services of different
\* projects have the same name
C29_OneEntryPerService ==
    Composed =>
        /\ Cardinality(DocumentEntries) = Cardinality(IncludedServices)
        /\ \A s1, s2 \in IncludedServices :
              s1 # s2 => container_name(s1) # container_name(s2)

-----------------------------------------------------------------------------
(* Termination of the staged start-up *)

\* the sequencer has returned the exit code of the invocation it issued last
ReturnedResult ==
    /\ pc = "done"
    /\ calls # <<>>
    /\ calls[Len(calls)].returned
    /\ exit_code = calls[Len(calls)].code
    /\ \A i \in 1..(Len(calls) - 1) : calls[i].returned /\ calls[i].code = 0

\* C30: when every invocation of the composition tool returns, every enabled
\* core service lists a published port in the end, every published port
\* accepts a connection in the end and every health check refers to a
\* published container port and succeeds in the end, a start-up that is not
\* interrupted ends with a result: the exit code of the final invocation or
\* of the first one that failed
C30_StartupTerminates ==
    ([](pc # "error") /\ [](interrupts = <<>>)) => <>ReturnedResult

\* a staged start-up with dev projects that went through all three
\* invocations after readiness polls that failed, without an interrupt
C30_Witness ==
    /\ ReturnedResult
    /\ Len(calls) = 3
    /\ interrupts = <<>>
    /\ \E k \in DOMAIN observed : observed[k].kind = "health" /\ ~observed[k].ok
    /\ \E k \in DOMAIN observed : observed[k].kind = "health" /\ observed[k].ok

====
